---- MODULE Spec2Model ----
(***************************************************************************)
(* Model of the template chunking pipeline of the AI planner:              *)
(*   - ChunkingEngine (services/chunking-engine.js): chunkTemplate,        *)
(*     estimateLines, splitLargeSection, createNewChunk, buildIndex,       *)
(*     addOverlap, getStatistics;                                          *)
(*   - its two callers: the CLI script (scripts/chunk-template.js:         *)
(*     parseArgs, validateOptions, main and its exit codes) and the        *)
(*     POST /api/chunk route (routes/api.js).                              *)
(*                                                                         *)
(* Data representation                                                     *)
(*   Field    [id, lines]: lines is the number of lines of the field's     *)
(*            JSON.stringify(f, null, 2) serialization.                    *)
(*   Section  [id, name, tags, fields]; id and name are records            *)
(*            [base, part]: part = 0 is the plain value, part = n > 0 is   *)
(*            the value suffixed "-part-n" / " (часть n)".                 *)
(*   Chunk    [id, title, startLine, endLine, tags, tagsRef, sections,     *)
(*            context]; id is the digit string after "chunk-"; context is  *)
(*            <<>> when content.context is absent and <<[from, fields]>>   *)
(*            otherwise; tagsRef = k > 0 says that tags is the very array  *)
(*            of the k-th input section (tagsRef = 0: an array of its own).*)
(*   Numbers that can be NaN or Infinity are records [kind, v].            *)
(***************************************************************************)
EXTENDS Integers, Sequences, FiniteSets, TLC

(***************************************************************************)
(* Bounds of the explored inputs.                                          *)
(***************************************************************************)
MaxSections == 3

MaxFields == 3

MaxRuns == 3

(* Lines of one serialized field: {id,label,type} is 5 lines; larger       *)
(* fields carry description/required/aiHints.                              *)
SmallFieldLines == {5}

FirstFieldLines == {5, 40}

HugeFieldLines == {60}

(* --chunk-size / --overlap values given to the CLI.                       *)
CliChunkSizes == {50, 64}

CliOverlapSizes == {10, 50}

(* --min-chunk-size values given to the CLI when it is run a second time.  *)
CliMinChunkSizes == {1}

(***************************************************************************)
(* Program constants.                                                      *)
(***************************************************************************)
DefaultMaxChunkSize == 500

DefaultMinChunkSize == 100

DefaultOverlapSize == 50

RouteMaxChunkSize == 500

RouteMinChunkSize == 100

RouteOverlapSize == 50

IdPadWidth == 3

CliDefaultChunkSize == 500

CliDefaultMinChunkSize == 100

CliDefaultOverlapSize == 50

CliMinChunkSize == 50

(***************************************************************************)
(* JavaScript helpers.                                                     *)
(***************************************************************************)
Min(a, b) == IF a <= b THEN a ELSE b

Max(a, b) == IF a >= b THEN a ELSE b

(* Math.ceil(a / b) for a >= 0, b > 0 *)
CeilDiv(a, b) == (a + b - 1) \div b

(* faulty variant of RoundDiv: Math.floor instead of Math.round *)
RoundDivFloor(a, b) == a \div b

(* Math.round(a / b) for b > 0: floor(a/b + 1/2) *)
RoundDiv(a, b) == (2 * a + b) \div (2 * b)

Num(v) == [kind |-> "num", v |-> v]

NaN == [kind |-> "NaN", v |-> 0]

Infinity == [kind |-> "Infinity", v |-> 0]

(* Math.min(x, n) where x is a number record and n an integer *)
MathMin(x, n) == IF x.kind = "Infinity" THEN Num(n) ELSE Num(Min(x.v, n))

RECURSIVE SumSeq(_)
SumSeq(s) == IF s = <<>> THEN 0 ELSE Head(s) + SumSeq(Tail(s))

(* String(n) as a sequence of decimal digits *)
RECURSIVE Digits(_)
Digits(n) == IF n < 10 THEN <<n>> ELSE Append(Digits(n \div 10), n % 10)

(* s.padStart(w, '0') *)
RECURSIVE PadStart(_, _)
PadStart(s, w) == IF Len(s) >= w THEN s ELSE PadStart(<<0>> \o s, w)

(* [...new Set(s)]: first occurrences, in order *)
RECURSIVE Dedup(_)
Dedup(s) ==
  IF s = <<>> THEN <<>>
  ELSE LET init == Dedup(SubSeq(s, 1, Len(s) - 1))
           last == s[Len(s)]
       IN IF \E k \in 1..Len(init) : init[k] = last THEN init ELSE Append(init, last)

(* faulty variant of Slice: the end index is taken as inclusive-minus-one *)
SliceShort(a, from, to) == SubSeq(a, from + 1, Min(to - 1, Len(a)))

(* a.slice(from, to) with 0 <= from, to possibly beyond the end *)
Slice(a, from, to) == SubSeq(a, from + 1, Min(to, Len(a)))

(* faulty variant of SliceLast: the first n elements instead of the last *)
SliceFirst(a, n) == SubSeq(a, 1, Min(n, Len(a)))

(* a.slice(-n) for n > 0 *)
SliceLast(a, n) == SubSeq(a, Max(Len(a) - n, 0) + 1, Len(a))

EmptyString == [base |-> "", part |-> 0]

(* !s for a string s *)
IsFalsy(s) == s = EmptyString

(***************************************************************************)
(* Input documents (templates): sequences of sections.                     *)
(***************************************************************************)
MkField(k, n) == [id |-> k, lines |-> n]

(* a field list of n fields: the first of `first` lines, the others of     *)
(* `rest` lines; field ids restart in every section                        *)
MkFields(n, first, rest) ==
  [k \in 1..n |-> MkField(k, IF k = 1 THEN first ELSE rest)]

MkSection(name, tags, fields) ==
  [id |-> [base |-> 0, part |-> 0], name |-> [base |-> name, part |-> 0],
   tags |-> tags, fields |-> fields]

(* field lists: up to MaxFields fields with a small or a big first field,  *)
(* and the single field that is larger than every explored maxChunkSize    *)
FieldLists ==
  { MkFields(n, f, r) : n \in 0..MaxFields, f \in FirstFieldLines, r \in SmallFieldLines }
    \cup { MkFields(1, h, h) : h \in HugeFieldLines }

(* The catalogue of section shapes: the name follows the first field's     *)
(* size, the tag list the parity of the field count.                       *)
NameOf(fields) == IF fields = <<>> \/ fields[1].lines \in SmallFieldLines THEN "A" ELSE "B"

TagsOf(fields) == IF Len(fields) % 2 = 0 THEN <<"x">> ELSE <<"y", "x">>

SectionPool == { MkSection(NameOf(fl), TagsOf(fl), fl) : fl \in FieldLists }

(* section ids are the positions in the document *)
WithIds(secs) == [k \in 1..Len(secs) |-> [secs[k] EXCEPT !.id = [base |-> k, part |-> 0]]]

GenTemplates ==
  { WithIds(secs) : secs \in UNION { [1..n -> SectionPool] : n \in 0..MaxSections } }

(* Scenario A: three sections of estimated size 200 each *)
ScenarioA ==
  WithIds([k \in 1..3 |-> MkSection("A", <<"x">>, <<MkField(1, 95), MkField(2, 96)>>)])

(* Scenario C: one section of estimated size 1200 with 12 fields *)
ScenarioC ==
  WithIds(<<MkSection("B", <<"x">>, [k \in 1..12 |-> MkField(k, IF k = 12 THEN 102 ELSE 99)])>>)

(* Scenario B: two sections of estimated size 300 each *)
ScenarioB ==
  WithIds([k \in 1..2 |-> MkSection("A", <<"x">>, <<MkField(1, 145), MkField(2, 146)>>)])

ScenarioTemplates == {ScenarioA, ScenarioB, ScenarioC}

(* Unusual sections: one with an empty name and a repeated tag, and one    *)
(* without fields whose tag list alone makes it larger than every          *)
(* --chunk-size explored.                                                  *)
ManyTags == 60

OddSection == MkSection("", <<"x", "x">>, <<>>)

TagHeavySection == MkSection("T", [k \in 1..ManyTags |-> "t" \o ToString(k)], <<>>)

EdgePool ==
  { OddSection, TagHeavySection }
    \cup { MkSection(NameOf(fl), TagsOf(fl), fl) :
             fl \in { MkFields(0, 5, 5), MkFields(2, 5, 5), MkFields(1, 40, 5) } }

EdgeTemplates ==
  { WithIds(secs) : secs \in UNION { [1..n -> EdgePool] : n \in 1..MaxSections } }

CliTemplates == GenTemplates \cup ScenarioTemplates \cup EdgeTemplates

(* the documents the script is run on a second time *)
RerunTemplates == ScenarioTemplates \cup EdgeTemplates \cup { t \in GenTemplates : Len(t) <= 2 }

RouteTemplates == ScenarioTemplates \cup { t \in GenTemplates : Len(t) <= 1 }

(***************************************************************************)
(* State.                                                                  *)
(***************************************************************************)
(* the RAGEngine before it is constructed, the widget before it is mounted *)
RagIdle == <<>>

UiIdle == <<>>

VARIABLES
  caller,            \* "cli" (scripts/chunk-template.js) or "route" (POST /api/chunk)
  options,           \* CLI options after parseArgs: chunkSize, minChunkSize, overlapSize
  engine,            \* the ChunkingEngine instance: maxChunkSize, minChunkSize, overlapSize
  template,          \* sections of the input document
  pc,                \* position of the caller
  i,                 \* chunkTemplate: loop index (0-based)
  chunks,            \* chunkTemplate: const chunks = [] ; later chunkedTemplate.chunks
  currentChunk,      \* chunkTemplate: let currentChunk
  currentLineCount,  \* chunkTemplate: let currentLineCount
  index,             \* chunkedTemplate.index (byId holds positions in chunks)
  totalChunks,       \* chunkedTemplate.metadata.totalChunks
  stats,             \* result of getStatistics, <<>> before the call
  runs,              \* number of chunkTemplate calls started on this engine
  seen,              \* <<>> or <<r>>: the record r of one earlier completed run
  argv,              \* CLI: process.argv.slice(2), a sequence of tokens
  inputKind,         \* what the input holds: "absent", "badjson", "nosections", "ok"
  exitCode,          \* CLI: <<>> while running, <<code>> after process.exit(code)
  written,           \* CLI: fs.writeFileSync(options.output, ...) has completed
  res,               \* route: what the handler of the current request has sent
  rag,               \* the RAGEngine instance, its callers and the services it calls
  ui                 \* the AIAssistant widget

(* the file system and the process state of the CLI *)
env == <<argv, inputKind, exitCode, written>>

vars ==
  <<caller, options, engine, template, pc, i, chunks, currentChunk,
    currentLineCount, index, totalChunks, stats, runs, seen, env, res, rag, ui>>

(***************************************************************************)
(* ChunkingEngine.                                                         *)
(***************************************************************************)
(* x || d for a numeric option: 0 and NaN are falsy *)
OrDefault(x, d) == IF x.kind = "NaN" \/ (x.kind = "num" /\ x.v = 0) THEN d ELSE x.v

(* constructor(config) *)
ChunkingEngine(config) ==
  [maxChunkSize |-> OrDefault(config.maxChunkSize, DefaultMaxChunkSize),
   minChunkSize |-> OrDefault(config.minChunkSize, DefaultMinChunkSize),
   overlapSize |-> OrDefault(config.overlapSize, DefaultOverlapSize)]

(* lines of JSON.stringify(array, null, 2) where elemLines are the line    *)
(* counts of the elements: "[]" is one line                                *)
ArrayLines(elemLines) == IF elemLines = <<>> THEN 1 ELSE 2 + SumSeq(elemLines)

(* estimateLines(section): braces, "id", "name", "tags": [...], "fields": [...] *)
estimateLines(section) ==
  2 + 1 + 1
    + ArrayLines([k \in 1..Len(section.tags) |-> 1])
    + ArrayLines([k \in 1..Len(section.fields) |-> section.fields[k].lines])

(* faulty variant of createNewChunk: the id is the 0-based index *)
createNewChunkZeroBased(idx) ==
  [id |-> PadStart(Digits(idx), IdPadWidth),
   title |-> EmptyString,
   startLine |-> 1,
   endLine |-> 0,
   tags |-> <<>>,
   tagsRef |-> 0,
   sections |-> <<>>,
   context |-> <<>>]

(* createNewChunk(index) *)
createNewChunk(idx) ==
  [id |-> PadStart(Digits(idx + 1), IdPadWidth),
   title |-> EmptyString,
   startLine |-> 1,
   endLine |-> 0,
   tags |-> <<>>,
   tagsRef |-> 0,
   sections |-> <<>>,
   context |-> <<>>]

(* faulty variant of SplitLoop: each new sub-chunk is put in front of the  *)
(* ones made before it                                                     *)
RECURSIVE SplitLoopReversed(_, _, _, _, _, _)
SplitLoopReversed(section, startIndex, fieldsPerChunk, pos, partNumber, acc) ==
  IF pos < Len(section.fields)
  THEN LET subFields == Slice(section.fields, pos, pos + fieldsPerChunk)
           subSection == [section EXCEPT !.id.part = partNumber,
                                         !.name.part = partNumber,
                                         !.fields = subFields]
           chunk == [createNewChunk(startIndex + Len(acc)) EXCEPT
                       !.title = subSection.name,
                       !.tags = section.tags,
                       !.tagsRef = section.id.base,
                       !.sections = <<subSection>>,
                       !.endLine = 1 + estimateLines(subSection) - 1]
       IN SplitLoopReversed(section, startIndex, fieldsPerChunk, pos + fieldsPerChunk,
                            partNumber + 1, <<chunk>> \o acc)
  ELSE acc

(* the loop of splitLargeSection: pos is the loop variable i *)
RECURSIVE SplitLoop(_, _, _, _, _, _)
SplitLoop(section, startIndex, fieldsPerChunk, pos, partNumber, acc) ==
  IF pos < Len(section.fields)
  THEN LET subFields == Slice(section.fields, pos, pos + fieldsPerChunk)
           subSection == [section EXCEPT !.id.part = partNumber,
                                         !.name.part = partNumber,
                                         !.fields = subFields]
           chunk == [createNewChunk(startIndex + Len(acc)) EXCEPT
                       !.title = subSection.name,
                       !.tags = section.tags,
                       !.tagsRef = section.id.base,
                       !.sections = <<subSection>>,
                       !.endLine = 1 + estimateLines(subSection) - 1]
       IN SplitLoop(section, startIndex, fieldsPerChunk, pos + fieldsPerChunk,
                    partNumber + 1, Append(acc, chunk))
  ELSE acc

(* faulty variant of splitLargeSection: the number of parts is taken as   *)
(* the number of fields per part                                           *)
splitLargeSectionByParts(section, startIndex) ==
  LET fieldsPerChunk == CeilDiv(estimateLines(section), engine.maxChunkSize)
  IN SplitLoop(section, startIndex, fieldsPerChunk, 0, 1, <<>>)

(* splitLargeSection(section, startIndex) *)
splitLargeSection(section, startIndex) ==
  LET fieldsPerChunk ==
        CeilDiv(Len(section.fields),
                CeilDiv(estimateLines(section), engine.maxChunkSize))
  IN SplitLoop(section, startIndex, fieldsPerChunk, 0, 1, <<>>)

(* map[key] = val *)
Put(map, key, val) ==
  IF key \in DOMAIN map THEN [map EXCEPT ![key] = val] ELSE map @@ (key :> val)

(* faulty variant of Push: the list is replaced instead of extended *)
PushOverwrite(map, key, val) ==
  IF key \in DOMAIN map THEN [map EXCEPT ![key] = <<val>>]
  ELSE map @@ (key :> <<val>>)

(* if (!map[key]) map[key] = []; map[key].push(val) *)
Push(map, key, val) ==
  IF key \in DOMAIN map THEN [map EXCEPT ![key] = Append(@, val)]
  ELSE map @@ (key :> <<val>>)

RECURSIVE PushAll(_, _, _)
PushAll(map, keys, val) ==
  IF keys = <<>> THEN map ELSE PushAll(Push(map, Head(keys), val), Tail(keys), val)

EmptyIndex == [byTag |-> <<>>, bySection |-> <<>>, byId |-> <<>>]

(* the loop of buildIndex over chunks[k..]; byId refers to the chunk       *)
(* object, represented by its position in the sequence                     *)
RECURSIVE IndexLoop(_, _, _)
IndexLoop(cs, k, idx) ==
  IF k > Len(cs) THEN idx
  ELSE LET chunk == cs[k]
       IN IndexLoop(cs, k + 1,
            [byId |-> Put(idx.byId, chunk.id, k),
             byTag |-> PushAll(idx.byTag, chunk.tags, chunk.id),
             bySection |-> PushAll(idx.bySection,
                                   [j \in 1..Len(chunk.sections) |-> chunk.sections[j].name],
                                   chunk.id)])

(* buildIndex(chunks) *)
buildIndex(cs) == IndexLoop(cs, 1, EmptyIndex)

(* faulty variant of OverlapLoop: the overlap fields are appended to the   *)
(* fields of a context that is already there                               *)
RECURSIVE OverlapLoopCumulative(_, _)
OverlapLoopCumulative(cs, k) ==
  IF k > Len(cs) THEN cs
  ELSE LET prevChunk == cs[k - 1]
           prevSections == prevChunk.sections
           lastSection == prevSections[Len(prevSections)]
           fieldsToOverlap ==
             SliceLast(lastSection.fields, CeilDiv(engine.overlapSize, 10))
           old == IF cs[k].context = <<>> THEN <<>> ELSE cs[k].context[1].fields
       IN IF Len(prevSections) > 0 /\ Len(fieldsToOverlap) > 0
          THEN OverlapLoopCumulative(
                 [cs EXCEPT ![k].context =
                    <<[from |-> prevChunk.id, fields |-> old \o fieldsToOverlap]>>],
                 k + 1)
          ELSE OverlapLoopCumulative(cs, k + 1)

(* faulty variant of OverlapLoop: the overlap fields are also put in front *)
(* of the fields of the current chunk's first section                      *)
RECURSIVE OverlapLoopPrepends(_, _)
OverlapLoopPrepends(cs, k) ==
  IF k > Len(cs) THEN cs
  ELSE LET prevChunk == cs[k - 1]
           prevSections == prevChunk.sections
           lastSection == prevSections[Len(prevSections)]
           fieldsToOverlap ==
             SliceLast(lastSection.fields, CeilDiv(engine.overlapSize, 10))
       IN IF Len(prevSections) > 0 /\ Len(fieldsToOverlap) > 0
          THEN OverlapLoopPrepends(
                 [cs EXCEPT ![k].context =
                              <<[from |-> prevChunk.id, fields |-> fieldsToOverlap]>>,
                            ![k].sections[1].fields = fieldsToOverlap \o @],
                 k + 1)
          ELSE OverlapLoopPrepends(cs, k + 1)

(* the loop of addOverlap: k is the 1-based position of currentChunk *)
RECURSIVE OverlapLoop(_, _)
OverlapLoop(cs, k) ==
  IF k > Len(cs) THEN cs
  ELSE LET prevChunk == cs[k - 1]
           prevSections == prevChunk.sections
           lastSection == prevSections[Len(prevSections)]
           fieldsToOverlap ==
             SliceLast(lastSection.fields, CeilDiv(engine.overlapSize, 10))
       IN IF Len(prevSections) > 0 /\ Len(fieldsToOverlap) > 0
          THEN OverlapLoop(
                 [cs EXCEPT ![k].context =
                    <<[from |-> prevChunk.id, fields |-> fieldsToOverlap]>>],
                 k + 1)
          ELSE OverlapLoop(cs, k + 1)

(* addOverlap(chunks) *)
addOverlap(cs) ==
  IF engine.overlapSize = 0 \/ Len(cs) < 2 THEN cs ELSE OverlapLoop(cs, 2)

ChunkFieldCounts(chunk) == [j \in 1..Len(chunk.sections) |-> Len(chunk.sections[j].fields)]

(* the loop of getStatistics *)
RECURSIVE StatsLoop(_, _, _, _)
StatsLoop(cs, k, st, totalLines) ==
  IF k > Len(cs)
  THEN [st EXCEPT !.avgLinesPerChunk =
          IF Len(cs) = 0 THEN NaN ELSE Num(RoundDiv(totalLines, Len(cs)))]
  ELSE LET chunk == cs[k]
           lines == chunk.endLine - chunk.startLine + 1
       IN StatsLoop(cs, k + 1,
            [st EXCEPT !.minLines = MathMin(st.minLines, lines),
                       !.maxLines = Max(st.maxLines, lines),
                       !.totalSections = @ + Len(chunk.sections),
                       !.totalFields = @ + SumSeq(ChunkFieldCounts(chunk))],
            totalLines + lines)

(* getStatistics(chunks) *)
getStatistics(cs) ==
  StatsLoop(cs, 1,
    [totalChunks |-> Len(cs), avgLinesPerChunk |-> Num(0), minLines |-> Infinity,
     maxLines |-> 0, totalSections |-> 0, totalFields |-> 0],
    0)

(***************************************************************************)
(* Callers and initial states.                                             *)
(***************************************************************************)
(* A command-line token [text, int]: int is what parseInt(text, 10) gives. *)
Word(text) == [text |-> text, int |-> NaN]

Number(n) == [text |-> ToString(n), int |-> Num(n)]

(* null, undefined (args[k] past the end) or '': falsy, parseInt gives NaN *)
Absent == Word("")

(* !x for an option value *)
IsAbsent(tok) == tok.text = ""

parseInt(tok) == tok.int

(* args[k], 1-based *)
Arg(args, k) == IF k <= Len(args) THEN args[k] ELSE Absent

(* the command lines explored, by what is wrong with them *)
FilesGiven == <<Word("--input"), Word("in.json"), Word("-o"), Word("out.json")>>

(* every size option left at its default *)
DefaultArgvs == {FilesGiven}

GoodArgvs ==
  { FilesGiven \o <<Word("--chunk-size"), Number(c), Word("--overlap"), Number(o)>> :
      c \in CliChunkSizes, o \in CliOverlapSizes }

(* a good command line with --min-chunk-size appended *)
WithMinChunkSize(args, m) == args \o <<Word("--min-chunk-size"), Number(m)>>

MinSizeArgvs == { WithMinChunkSize(a, m) : a \in GoodArgvs, m \in CliMinChunkSizes }

HelpArgvs ==
  { <<Word("--help")>>, <<Word("-i"), Word("in.json"), Word("-h"), Word("--bogus")>> }

UnknownOptionArgvs ==
  { FilesGiven \o <<Word("--bogus")>>, <<Word("in.json")>>, <<Word("--bogus"), Word("--help")>> }

MissingInputArgvs ==
  { <<>>, <<Word("--output"), Word("out.json")>>, <<Word("-o"), Word("out.json"), Word("-i")>> }

MissingOutputArgvs ==
  { <<Word("-i"), Word("in.json")>>, <<Word("-i"), Word("in.json"), Word("--output")>> }

SmallChunkArgvs ==
  { FilesGiven \o <<Word("--chunk-size"), Number(n)>> : n \in {CliMinChunkSize - 1, 0, -5} }

(* --chunk-size with a value that is no number, or with no value at all:   *)
(* parseInt gives NaN                                                      *)
NonNumericChunkArgvs ==
  { FilesGiven \o <<Word("--chunk-size"), Word("abc")>>,
    FilesGiven \o <<Word("--chunk-size")>> }

(* --overlap 0 *)
ZeroOverlapArgvs ==
  { FilesGiven \o <<Word("--chunk-size"), Number(c), Word("--overlap"), Number(0)>> :
      c \in CliChunkSizes }

FailingArgvs ==
  UnknownOptionArgvs \cup MissingInputArgvs \cup MissingOutputArgvs \cup SmallChunkArgvs

InputKinds == {"absent", "badjson", "nosections", "ok"}

(* parseArgs: const options = { input: null, output: null, chunkSize: 500, ... } *)
DefaultOptions ==
  [input |-> Absent, output |-> Absent, chunkSize |-> Num(CliDefaultChunkSize),
   minChunkSize |-> Num(CliDefaultMinChunkSize), overlapSize |-> Num(CliDefaultOverlapSize)]

(* parseArgs: the loop over args from position k; exit is <<>> when the    *)
(* loop ends, <<code>> when it calls process.exit(code)                    *)
RECURSIVE ParseLoop(_, _, _)
ParseLoop(args, k, opts) ==
  IF k > Len(args) THEN [exit |-> <<>>, options |-> opts]
  ELSE LET a == args[k].text
           val == Arg(args, k + 1)
       IN CASE a \in {"--input", "-i"} ->
                 ParseLoop(args, k + 2, [opts EXCEPT !.input = val])
            [] a \in {"--output", "-o"} ->
                 ParseLoop(args, k + 2, [opts EXCEPT !.output = val])
            [] a = "--chunk-size" ->
                 ParseLoop(args, k + 2, [opts EXCEPT !.chunkSize = parseInt(val)])
            [] a = "--min-chunk-size" ->
                 ParseLoop(args, k + 2, [opts EXCEPT !.minChunkSize = parseInt(val)])
            [] a = "--overlap" ->
                 ParseLoop(args, k + 2, [opts EXCEPT !.overlapSize = parseInt(val)])
            [] a \in {"--help", "-h"} -> [exit |-> <<0>>, options |-> opts]
            [] OTHER -> [exit |-> <<1>>, options |-> opts]

parseArgs(args) == ParseLoop(args, 1, DefaultOptions)

(* faulty variant of NumLess: only sizes that are not positive are below *)
NumLessNonPositive(x, n) == x.kind = "num" /\ x.v <= 0

(* x < n in JavaScript: false when x is NaN *)
NumLess(x, n) == x.kind = "num" /\ x.v < n

(* faulty variant of validateOptions: the chunk size is not checked *)
validateOptionsNoSizeCheck(opts, exists) ==
  IF IsAbsent(opts.input) \/ IsAbsent(opts.output) \/ ~exists THEN <<1>> ELSE <<>>

(* validateOptions: <<1>> when it calls process.exit(1), <<>> when it returns *)
validateOptions(opts, exists) ==
  IF IsAbsent(opts.input) THEN <<1>>
  ELSE IF IsAbsent(opts.output) THEN <<1>>
  ELSE IF ~exists THEN <<1>>
  ELSE IF NumLess(opts.chunkSize, CliMinChunkSize) THEN <<1>>
  ELSE <<>>

(* the configuration of the module-level chunker of routes/api.js *)
RouteConfig ==
  [chunkSize |-> Num(RouteMaxChunkSize), minChunkSize |-> Num(RouteMinChunkSize),
   overlapSize |-> Num(RouteOverlapSize)]

(* new ChunkingEngine({maxChunkSize: o.chunkSize, minChunkSize: ..., overlapSize: ...}) *)
NewEngine(o) ==
  ChunkingEngine([maxChunkSize |-> o.chunkSize, minChunkSize |-> o.minChunkSize,
                  overlapSize |-> o.overlapSize])

(* the bodies POSTed to /api/chunk: no template, a template without        *)
(* sections, a template whose first section is null (chunkTemplate throws  *)
(* a TypeError on section.tags), or a well-formed template                 *)
RouteRequests ==
  { [kind |-> "ok", template |-> t] : t \in RouteTemplates }
    \cup { [kind |-> k, template |-> <<>>] : k \in {"notemplate", "nosections", "badsection"} }

(* nothing sent yet for the request that started after `n` chunkTemplate calls *)
NoResponse(n) == [sent |-> <<>>, runsAtStart |-> n]

(* no ChunkingEngine has been constructed yet *)
NoEngine == <<>>

Init ==
  /\ \/ /\ caller = "cli"
        /\ \/ /\ argv \in GoodArgvs
              /\ inputKind = "ok"
              /\ template \in CliTemplates
           \/ /\ argv \in HelpArgvs \cup FailingArgvs \cup DefaultArgvs
              /\ inputKind \in InputKinds
              /\ template = <<>>
           \/ /\ argv \in NonNumericChunkArgvs \cup DefaultArgvs
              /\ inputKind = "ok"
              /\ template \in ScenarioTemplates
           \/ /\ argv \in ZeroOverlapArgvs
              /\ inputKind = "ok"
              /\ template \in EdgeTemplates
        /\ options = DefaultOptions
        /\ engine = NoEngine
        /\ pc = "parseArgs"
     \/ /\ caller = "route"
        /\ argv = <<>>
        /\ \E r \in RouteRequests : inputKind = r.kind /\ template = r.template
        /\ options = RouteConfig
        /\ engine = NewEngine(options)
        /\ pc = "request"
  /\ exitCode = <<>>
  /\ written = FALSE
  /\ res = NoResponse(0)
  /\ rag = RagIdle
  /\ ui = UiIdle
  /\ i = 0
  /\ chunks = <<>>
  /\ currentChunk = createNewChunk(0)
  /\ currentLineCount = 0
  /\ index = EmptyIndex
  /\ totalChunks = 0
  /\ stats = <<>>
  /\ runs = 0
  /\ seen = <<>>

(***************************************************************************)
(* The CLI before chunkTemplate.                                           *)
(***************************************************************************)
(* main: const options = parseArgs() *)
ParseArgs ==
  /\ UNCHANGED <<res, rag, ui>>
  /\ pc = "parseArgs"
  /\ LET r == parseArgs(argv)
     IN /\ options' = r.options
        /\ exitCode' = r.exit
        /\ pc' = IF r.exit = <<>> THEN "validate" ELSE "exited"
  /\ UNCHANGED <<caller, engine, template, i, chunks, currentChunk, currentLineCount,
                 index, totalChunks, stats, runs, seen, argv, inputKind, written>>

(* main: validateOptions(options) *)
ValidateOptions ==
  /\ UNCHANGED <<res, rag, ui>>
  /\ pc = "validate"
  /\ LET e == validateOptions(options, inputKind # "absent")
     IN /\ exitCode' = e
        /\ pc' = IF e = <<>> THEN "read" ELSE "exited"
  /\ UNCHANGED <<caller, options, engine, template, i, chunks, currentChunk,
                 currentLineCount, index, totalChunks, stats, runs, seen, argv,
                 inputKind, written>>

(* main: readFileSync, JSON.parse, new ChunkingEngine({...}); a parse      *)
(* error is caught and ends the process with code 1                        *)
MainRead ==
  /\ UNCHANGED <<res, rag, ui>>
  /\ pc = "read"
  /\ IF inputKind = "badjson"
     THEN /\ exitCode' = <<1>>
          /\ pc' = "exited"
          /\ UNCHANGED engine
     ELSE /\ engine' = NewEngine(options)
          /\ pc' = "call"
          /\ UNCHANGED exitCode
  /\ UNCHANGED <<caller, options, template, i, chunks, currentChunk, currentLineCount,
                 index, totalChunks, stats, runs, seen, argv, inputKind, written>>

(***************************************************************************)
(* chunkTemplate, one action per step of its loop.                         *)
(***************************************************************************)
(* faulty variant of Fits: the running line count is left out of the test *)
FitsAlone(lineCount, sectionLines) == sectionLines <= engine.maxChunkSize

(* faulty variant of Fits: minChunkSize is enforced, a chunk below it      *)
(* takes every next section that is not oversized                          *)
FitsOrUndersized(lineCount, sectionLines) ==
  \/ lineCount + sectionLines <= engine.maxChunkSize
  \/ lineCount < engine.minChunkSize /\ sectionLines <= engine.maxChunkSize

(* faulty variant of Fits: a section that fills the chunk exactly does not fit *)
FitsStrict(lineCount, sectionLines) == lineCount + sectionLines < engine.maxChunkSize

(* currentLineCount + sectionLines <= this.maxChunkSize *)
Fits(lineCount, sectionLines) == lineCount + sectionLines <= engine.maxChunkSize

(* faulty variant of CloseChunk: endLine is one line too far *)
CloseChunkOffByOne(chunk, lineCount) ==
  [chunk EXCEPT !.endLine = chunk.startLine + lineCount]

(* currentChunk.endLine = currentChunk.startLine + currentLineCount - 1 *)
CloseChunk(chunk, lineCount) ==
  [chunk EXCEPT !.endLine = chunk.startLine + lineCount - 1]

(* faulty variant of PushIfPopulated: the accumulator is emitted even when empty *)
PushAlways(cs, chunk, lineCount) == Append(cs, CloseChunk(chunk, lineCount))

(* if (currentChunk.content.sections.length > 0) { close; chunks.push(currentChunk) } *)
PushIfPopulated(cs, chunk, lineCount) ==
  IF Len(chunk.sections) > 0 THEN Append(cs, CloseChunk(chunk, lineCount)) ELSE cs

(* faulty variant of chunkTemplateBegin: the chunk list lives on the      *)
(* engine and is not cleared between calls                                 *)
chunkTemplateBeginKeepsChunks ==
  /\ UNCHANGED <<res, rag, ui>>
  /\ pc = "call"
  /\ chunks' = chunks
  /\ currentChunk' = createNewChunk(Len(chunks))
  /\ currentLineCount' = 0
  /\ i' = 0
  /\ runs' = runs + 1
  /\ pc' = "loop"
  /\ UNCHANGED <<env, caller, options, engine, template, index, totalChunks, stats, seen>>

(* const chunks = []; let currentChunk = this.createNewChunk(0); let currentLineCount = 0 *)
chunkTemplateBegin ==
  /\ UNCHANGED <<res, rag, ui>>
  /\ pc = "call"
  /\ chunks' = <<>>
  /\ currentChunk' = createNewChunk(0)
  /\ currentLineCount' = 0
  /\ i' = 0
  /\ runs' = runs + 1
  /\ pc' = "loop"
  /\ UNCHANGED <<env, caller, options, engine, template, index, totalChunks, stats, seen>>

(* faulty variant of MergeTags: the section's tags are pushed onto the     *)
(* chunk's tags array in place, which after the new-chunk branch is the    *)
(* tags array of an input section                                          *)
MergeTagsInPlace(chunk, section, doc) ==
  LET merged == Dedup(chunk.tags \o section.tags)
  IN [tags |-> merged,
      tagsRef |-> chunk.tagsRef,
      doc |-> IF chunk.tagsRef > 0 THEN [doc EXCEPT ![chunk.tagsRef].tags = merged]
              ELSE doc]

(* currentChunk.tags = [...new Set([...currentChunk.tags, ...(section.tags || [])])]: *)
(* a new array is bound to the chunk, no array of the document is written  *)
MergeTags(chunk, section, doc) ==
  [tags |-> Dedup(chunk.tags \o section.tags), tagsRef |-> 0, doc |-> doc]

(* the section fits into the current chunk *)
SectionFits ==
  /\ UNCHANGED <<res, rag, ui>>
  /\ pc = "loop"
  /\ i < Len(template)
  /\ LET section == template[i + 1]
         sectionLines == estimateLines(section)
         merged == MergeTags(currentChunk, section, template)
     IN /\ Fits(currentLineCount, sectionLines)
        /\ currentChunk' =
             [currentChunk EXCEPT
                !.sections = Append(@, section),
                !.tags = merged.tags,
                !.tagsRef = merged.tagsRef,
                !.title = IF IsFalsy(@) THEN section.name ELSE @]
        /\ template' = merged.doc
        /\ currentLineCount' = currentLineCount + sectionLines
  /\ i' = i + 1
  /\ UNCHANGED <<env, caller, options, engine, pc, chunks, index, totalChunks,
                 stats, runs, seen>>

(* faulty variant of SectionTooLarge: when the split gives no sub-chunk,   *)
(* the open accumulator is kept and goes on being filled                   *)
SectionTooLargeKeepsAccumulator ==
  /\ UNCHANGED <<res, rag, ui>>
  /\ pc = "loop"
  /\ i < Len(template)
  /\ LET section == template[i + 1]
         sectionLines == estimateLines(section)
         saved == PushIfPopulated(chunks, currentChunk, currentLineCount)
         subChunks == splitLargeSection(section, Len(saved))
     IN /\ ~Fits(currentLineCount, sectionLines)
        /\ sectionLines > engine.maxChunkSize
        /\ IF subChunks = <<>>
           THEN UNCHANGED <<chunks, currentChunk, currentLineCount>>
           ELSE /\ chunks' = saved \o subChunks
                /\ currentChunk' = createNewChunk(Len(saved \o subChunks))
                /\ currentLineCount' = 0
  /\ i' = i + 1
  /\ UNCHANGED <<env, caller, options, engine, template, pc, index, totalChunks, stats,
                 runs, seen>>

(* the section alone is larger than maxChunkSize: split it *)
SectionTooLarge ==
  /\ UNCHANGED <<res, rag, ui>>
  /\ pc = "loop"
  /\ i < Len(template)
  /\ LET section == template[i + 1]
         sectionLines == estimateLines(section)
         saved == PushIfPopulated(chunks, currentChunk, currentLineCount)
         subChunks == splitLargeSection(section, Len(saved))
     IN /\ ~Fits(currentLineCount, sectionLines)
        /\ sectionLines > engine.maxChunkSize
        /\ chunks' = saved \o subChunks
        /\ currentChunk' = createNewChunk(Len(saved \o subChunks))
        /\ currentLineCount' = 0
  /\ i' = i + 1
  /\ UNCHANGED <<env, caller, options, engine, template, pc, index, totalChunks, stats,
                 runs, seen>>

(* the section fits alone, but not into the current chunk *)
SectionStartsNewChunk ==
  /\ UNCHANGED <<res, rag, ui>>
  /\ pc = "loop"
  /\ i < Len(template)
  /\ LET section == template[i + 1]
         sectionLines == estimateLines(section)
         saved == Append(chunks, CloseChunk(currentChunk, currentLineCount))
     IN /\ ~Fits(currentLineCount, sectionLines)
        /\ ~(sectionLines > engine.maxChunkSize)
        /\ chunks' = saved
        /\ currentChunk' =
             [createNewChunk(Len(saved)) EXCEPT
                !.sections = <<section>>,
                !.title = section.name,
                !.tags = section.tags,
                !.tagsRef = section.id.base]
        /\ currentLineCount' = sectionLines
  /\ i' = i + 1
  /\ UNCHANGED <<env, caller, options, engine, template, pc, index, totalChunks, stats,
                 runs, seen>>

(* res.status(400).json({error: 'Invalid template format. ...'}) *)
BadRequestResponse == [status |-> 400]

(* catch: res.status(500).json({error: 'Failed to chunk template', details: error.message}) *)
ErrorResponse == [status |-> 500, details |-> "error.message"]

(* res.json({success: true, template: chunkedTemplate, stats}) *)
SuccessResponse(cs, idx, total, st) ==
  [status |-> 200, chunks |-> cs, index |-> idx, totalChunks |-> total, stats |-> st]

(* faulty variant of InvalidBody: only a missing template is rejected *)
InvalidBodyTemplateOnly(kind) == kind = "notemplate"

(* !template || !template.sections *)
InvalidBody(kind) == kind \in {"notemplate", "nosections"}

(* router.post('/chunk'): the body is checked before the packer is called *)
RouteValidate ==
  /\ UNCHANGED <<rag, ui>>
  /\ pc = "request"
  /\ caller = "route"
  /\ IF InvalidBody(inputKind)
     THEN /\ res' = [res EXCEPT !.sent = Append(@, BadRequestResponse)]
          /\ pc' = "responded"
     ELSE /\ pc' = "call"
          /\ UNCHANGED res
  /\ UNCHANGED <<env, caller, options, engine, template, i, chunks, currentChunk,
                 currentLineCount, index, totalChunks, stats, runs, seen>>

(* the document has no sections property: template.sections.length in the *)
(* loop condition throws a TypeError, which the caller catches; the same   *)
(* for a section that is null                                              *)
chunkTemplateThrows ==
  /\ UNCHANGED <<rag, ui>>
  /\ pc = "loop"
  /\ inputKind \in {"nosections", "badsection"}
  /\ IF caller = "cli"
     THEN /\ exitCode' = <<1>>
          /\ pc' = "exited"
          /\ UNCHANGED res
     ELSE /\ res' = [res EXCEPT !.sent = Append(@, ErrorResponse)]
          /\ pc' = "responded"
          /\ UNCHANGED exitCode
  /\ UNCHANGED <<caller, options, engine, template, i, chunks, currentChunk,
                 currentLineCount, index, totalChunks, stats, runs, seen, argv,
                 inputKind, written>>

(* after the loop: the last chunk, the index, the result *)
chunkTemplateEnd ==
  /\ UNCHANGED <<res, rag, ui>>
  /\ pc = "loop"
  /\ inputKind = "ok"
  /\ i = Len(template)
  /\ LET final == PushIfPopulated(chunks, currentChunk, currentLineCount)
     IN /\ chunks' = final
        /\ index' = buildIndex(final)
        /\ totalChunks' = Len(final)
  /\ pc' = IF caller = "cli" THEN "chunked" ELSE "stats"
  /\ UNCHANGED <<env, caller, options, engine, template, i, currentChunk, currentLineCount,
                 stats, runs, seen>>

(***************************************************************************)
(* The callers after chunkTemplate.                                        *)
(***************************************************************************)
(* main: if (options.overlapSize > 0) chunker.addOverlap(chunkedTemplate.chunks) *)
MainAddOverlap ==
  /\ UNCHANGED <<res, rag, ui>>
  /\ pc = "chunked"
  /\ caller = "cli"
  /\ chunks' = IF options.overlapSize.kind = "num" /\ options.overlapSize.v > 0
               THEN addOverlap(chunks) ELSE chunks
  /\ pc' = "stats"
  /\ UNCHANGED <<env, caller, options, engine, template, i, currentChunk, currentLineCount,
                 index, totalChunks, stats, runs, seen>>

(* main and the route: const stats = chunker.getStatistics(chunkedTemplate.chunks) *)
Statistics ==
  /\ UNCHANGED <<rag, ui>>
  /\ pc = "stats"
  /\ stats' = getStatistics(chunks)
  /\ pc' = IF caller = "cli" THEN "write" ELSE "done"
  /\ res' = IF caller = "cli" THEN res
            ELSE [res EXCEPT !.sent =
                    Append(@, SuccessResponse(chunks, index, totalChunks, stats'))]
  /\ UNCHANGED <<env, caller, options, engine, template, i, chunks, currentChunk,
                 currentLineCount, index, totalChunks, runs, seen>>

(* main: mkdirSync, writeFileSync, the chunk list, process.exit(0) *)
MainWrite ==
  /\ UNCHANGED <<res, rag, ui>>
  /\ pc = "write"
  /\ written' = TRUE
  /\ exitCode' = <<0>>
  /\ pc' = "done"
  /\ UNCHANGED <<caller, options, engine, template, i, chunks, currentChunk,
                 currentLineCount, index, totalChunks, stats, runs, seen, argv,
                 inputKind>>

(* main: mkdirSync or writeFileSync throws (no permission, disk full);     *)
(* the catch block ends the process with code 1                            *)
MainWriteThrows ==
  /\ UNCHANGED <<res, rag, ui>>
  /\ pc = "write"
  /\ exitCode' = <<1>>
  /\ pc' = "exited"
  /\ UNCHANGED <<caller, options, engine, template, i, chunks, currentChunk,
                 currentLineCount, index, totalChunks, stats, runs, seen, argv,
                 inputKind, written>>

(* what a run's result is compared on: everything but metadata.chunkedAt *)
RunRecord ==
  [run |-> runs, template |-> template, chunks |-> chunks, index |-> index,
   engine |-> engine]

(* the script is run a second time on the same input file, with the same   *)
(* options and a --min-chunk-size: a new process with a new engine; seen   *)
(* keeps the first run                                                     *)
CliRunAgain ==
  /\ UNCHANGED <<res, rag, ui>>
  /\ pc = "done"
  /\ caller = "cli"
  /\ seen = <<>>
  /\ argv \in GoodArgvs
  /\ template \in RerunTemplates
  /\ \E m \in CliMinChunkSizes : argv' = WithMinChunkSize(argv, m)
  /\ seen' = <<RunRecord>>
  /\ options' = DefaultOptions
  /\ engine' = NoEngine
  /\ pc' = "parseArgs"
  /\ i' = 0
  /\ chunks' = <<>>
  /\ currentChunk' = createNewChunk(0)
  /\ currentLineCount' = 0
  /\ index' = EmptyIndex
  /\ totalChunks' = 0
  /\ stats' = <<>>
  /\ runs' = 0
  /\ exitCode' = <<>>
  /\ written' = FALSE
  /\ UNCHANGED <<caller, template, inputKind>>

(* the route handler is called again, on the same module-level chunker;    *)
(* seen keeps one earlier run                                              *)
RouteNextRequest ==
  /\ UNCHANGED <<rag, ui>>
  /\ pc \in {"done", "responded"}
  /\ caller = "route"
  /\ runs < MaxRuns
  /\ \E r \in RouteRequests : inputKind' = r.kind /\ template' = r.template
  /\ seen' \in IF pc = "done" THEN {seen, <<RunRecord>>} ELSE {seen}
  /\ stats' = <<>>
  /\ res' = NoResponse(runs)
  /\ pc' = "request"
  /\ UNCHANGED <<argv, exitCode, written, caller, options, engine, i, chunks,
                 currentChunk, currentLineCount, index, totalChunks, runs>>

Next ==
  \/ ParseArgs
  \/ ValidateOptions
  \/ MainRead
  \/ RouteValidate
  \/ chunkTemplateBegin
  \/ SectionFits
  \/ SectionTooLarge
  \/ SectionStartsNewChunk
  \/ chunkTemplateThrows
  \/ chunkTemplateEnd
  \/ MainAddOverlap
  \/ Statistics
  \/ MainWrite
  \/ MainWriteThrows
  \/ CliRunAgain
  \/ RouteNextRequest

Spec == Init /\ [][Next]_vars

(***************************************************************************)
(* Properties.                                                             *)
(***************************************************************************)
(* chunkTemplate has returned to its caller *)
Returned == pc \in {"chunked", "stats", "write", "done"}

(* estimated line size of a chunk *)
ChunkLines(chunk) == chunk.endLine - chunk.startLine + 1

(* the chunk was produced by splitLargeSection *)
IsSubChunk(chunk) == Len(chunk.sections) = 1 /\ chunk.sections[1].id.part > 0

(* number of fields with the given id in a list of sections *)
FieldIdCount(secs, fid) ==
  SumSeq([j \in 1..Len(secs) |->
            Cardinality({k \in 1..Len(secs[j].fields) : secs[j].fields[k].id = fid})])

FieldIdsOf(secs) ==
  UNION { {secs[j].fields[k].id : k \in 1..Len(secs[j].fields)} : j \in 1..Len(secs) }

EmittedFieldIdCount(fid) ==
  SumSeq([c \in 1..Len(chunks) |-> FieldIdCount(chunks[c].sections, fid)])

EmittedFieldIds == UNION { FieldIdsOf(chunks[c].sections) : c \in 1..Len(chunks) }

(* C1: after chunkTemplate, every field id occurs in the sections of the   *)
(* emitted chunks exactly as often as in the input sections: no field is   *)
(* dropped or duplicated, by packing or by splitting.                      *)
C1_FieldCoverage ==
  Returned =>
    \A fid \in FieldIdsOf(template) \cup EmittedFieldIds :
      EmittedFieldIdCount(fid) = FieldIdCount(template, fid)

(* C1 witness: a returned run that both packed two sections into one chunk *)
(* and split a section into a part of several fields and a later part.     *)
C1_Witness ==
  /\ Returned
  /\ \E c \in 1..Len(chunks) : Len(chunks[c].sections) >= 2
  /\ \E c \in 1..Len(chunks) :
       /\ IsSubChunk(chunks[c])
       /\ chunks[c].sections[1].id.part = 2
       /\ Len(chunks[c - 1].sections[1].fields) >= 2

(* C2 (as claimed): every emitted chunk has an estimated line size of at   *)
(* most maxChunkSize, except a sub-chunk of a split section one of whose   *)
(* fields alone is larger than maxChunkSize.                               *)
C2_ChunkBound ==
  Returned =>
    \A c \in 1..Len(chunks) :
      \/ ChunkLines(chunks[c]) <= engine.maxChunkSize
      \/ /\ IsSubChunk(chunks[c])
         /\ \E k \in 1..Len(chunks[c].sections[1].fields) :
              chunks[c].sections[1].fields[k].lines > engine.maxChunkSize

ScenarioARun ==
  /\ Returned
  /\ template = ScenarioA
  /\ engine.maxChunkSize = 500
  /\ \A k \in 1..Len(template) : estimateLines(template[k]) = 200

(* C3 (as claimed): scenario A, sections of sizes [200, 200, 200] with     *)
(* maxChunkSize = 500, yields exactly one chunk holding all three sections.*)
C3_ScenarioAOneChunk ==
  ScenarioARun =>
    /\ Len(chunks) = 1
    /\ chunks[1].sections = template

(* C3 (amended): scenario A yields exactly two chunks, the first holding   *)
(* sections 1 and 2 (400 lines), the second holding section 3.             *)
C3_ScenarioATwoChunks ==
  ScenarioARun =>
    /\ Len(chunks) = 2
    /\ chunks[1].sections = SubSeq(template, 1, 2)
    /\ chunks[2].sections = SubSeq(template, 3, 3)
    /\ ChunkLines(chunks[1]) = 400
    /\ ChunkLines(chunks[2]) = 200

(* C3 witness: the scenario A run has returned. *)
C3_Witness == ScenarioARun /\ pc = "done"

Range(f) == { f[k] : k \in DOMAIN f }

(* C4: the returned index is consistent with the chunk sequence: every id  *)
(* of byId occurs exactly once among the chunks and maps to that chunk;    *)
(* every tag of a chunk is a key of byTag listing the chunk's id; every    *)
(* section name of a chunk is a key of bySection listing the chunk's id.   *)
C4_IndexConsistent ==
  Returned =>
    /\ \A id \in DOMAIN index.byId :
         /\ Cardinality({c \in 1..Len(chunks) : chunks[c].id = id}) = 1
         /\ index.byId[id] \in 1..Len(chunks)
         /\ chunks[index.byId[id]].id = id
    /\ \A c \in 1..Len(chunks) :
         /\ \A t \in Range(chunks[c].tags) :
              t \in DOMAIN index.byTag /\ chunks[c].id \in Range(index.byTag[t])
         /\ \A j \in 1..Len(chunks[c].sections) :
              /\ chunks[c].sections[j].name \in DOMAIN index.bySection
              /\ chunks[c].id \in Range(index.bySection[chunks[c].sections[j].name])

(* C4 witness: an index in which one tag and one section name each list    *)
(* two different chunks.                                                   *)
C4_Witness ==
  /\ Returned
  /\ \E t \in DOMAIN index.byTag : Cardinality(Range(index.byTag[t])) >= 2
  /\ \E n \in DOMAIN index.bySection : Cardinality(Range(index.bySection[n])) >= 2
  /\ Cardinality(DOMAIN index.byId) >= 3

(* addOverlap has been applied to the returned chunks *)
Overlapped ==
  /\ caller = "cli"
  /\ pc \in {"stats", "write", "done"}
  /\ options.overlapSize.kind = "num" /\ options.overlapSize.v > 0

(* C5 (as claimed): after one addOverlap pass every chunk after the first  *)
(* has context.from = the id of its predecessor whenever the predecessor   *)
(* has some section with a non-empty field list, the last or not; the      *)
(* first chunk has no context.                                             *)
C5_OverlapFromAnySection ==
  Overlapped =>
    /\ \A c \in 2..Len(chunks) :
         (\E j \in 1..Len(chunks[c - 1].sections) :
            Len(chunks[c - 1].sections[j].fields) > 0)
         => /\ chunks[c].context # <<>>
            /\ chunks[c].context[1].from = chunks[c - 1].id
    /\ Len(chunks) > 0 => chunks[1].context = <<>>

RECURSIVE DigitsValue(_)
DigitsValue(d) ==
  IF d = <<>> THEN 0 ELSE 10 * DigitsValue(SubSeq(d, 1, Len(d) - 1)) + d[Len(d)]

(* C6: the k-th emitted chunk (1-based) has the id "chunk-" followed by k  *)
(* in decimal, zero-padded to 3 digits; ids are pairwise distinct.         *)
C6_IdsByEmissionOrder ==
  Returned =>
    /\ \A k \in 1..Len(chunks) :
         /\ Len(chunks[k].id) >= 3
         /\ \A d \in 1..Len(chunks[k].id) : chunks[k].id[d] \in 0..9
         /\ Len(chunks[k].id) > 3 => chunks[k].id[1] # 0
         /\ DigitsValue(chunks[k].id) = k
    /\ \A k, m \in 1..Len(chunks) : k # m => chunks[k].id # chunks[m].id

(* C6 witness: the first accumulator was discarded empty, the output       *)
(* starts with split sub-chunks and ends with an accumulated chunk.        *)
C6_Witness ==
  /\ Returned
  /\ Len(chunks) >= 3
  /\ IsSubChunk(chunks[1])
  /\ IsSubChunk(chunks[2])
  /\ ~IsSubChunk(chunks[Len(chunks)])

(* C7: every emitted chunk holds at least one section and has              *)
(* endLine >= startLine; an empty accumulator is never emitted.            *)
C7_ChunksPopulated ==
  \A c \in 1..Len(chunks) :
    /\ Len(chunks[c].sections) >= 1
    /\ chunks[c].endLine >= chunks[c].startLine

(* C7 witness: a returned run whose first section was oversized (the       *)
(* initial accumulator was empty when it was closed) and in which a later  *)
(* section closed a populated accumulator unconditionally.                 *)
C7_Witness ==
  /\ Returned
  /\ Len(template) >= 3
  /\ estimateLines(template[1]) > engine.maxChunkSize
  /\ \E c \in 2..Len(chunks) : ~IsSubChunk(chunks[c - 1]) /\ ~IsSubChunk(chunks[c])

(* what determinism compares: ids, titles, tags, sections and their fields *)
Packing(cs) ==
  [c \in 1..Len(cs) |->
     [id |-> cs[c].id, title |-> cs[c].title, tags |-> cs[c].tags,
      sections |-> cs[c].sections]]

(* C8: a chunkTemplate run on an engine gives, for the same document, the  *)
(* same chunk ids, titles, tags and section/field assignment (and index)   *)
(* as an earlier run on that engine, whatever was packed in between.       *)
C8_Deterministic ==
  (Returned /\ seen # <<>> /\ seen[1].template = template) =>
    /\ Packing(chunks) = Packing(seen[1].chunks)
    /\ index = seen[1].index

(* C8 witness: the third call on the engine returns for the document of    *)
(* the first call, which gave more than one chunk.                         *)
C8_Witness ==
  /\ pc = "done"
  /\ runs = 3
  /\ seen # <<>>
  /\ seen[1].run = 1
  /\ seen[1].template = template
  /\ Len(chunks) >= 2

ChunkLineSet == { ChunkLines(chunks[c]) : c \in 1..Len(chunks) }

TotalLines == SumSeq([c \in 1..Len(chunks) |-> ChunkLines(chunks[c])])

(* every field of every section of every chunk, by position *)
EmittedFieldSlots ==
  UNION { UNION { { <<c, j, k>> : k \in 1..Len(chunks[c].sections[j].fields) } :
                  j \in 1..Len(chunks[c].sections) } :
          c \in 1..Len(chunks) }

(* C9: for a non-empty chunk sequence getStatistics returns the number of  *)
(* chunks, the average line span rounded to the nearest integer (half up), *)
(* the true minimum and maximum span, and the section and field totals.    *)
C9_Statistics ==
  (pc = "done" /\ Len(chunks) > 0) =>
    /\ stats.totalChunks = Len(chunks)
    /\ stats.avgLinesPerChunk.kind = "num"
    /\ 2 * Len(chunks) * stats.avgLinesPerChunk.v - Len(chunks) <= 2 * TotalLines
    /\ 2 * TotalLines < 2 * Len(chunks) * stats.avgLinesPerChunk.v + Len(chunks)
    /\ stats.minLines.kind = "num"
    /\ stats.minLines.v \in ChunkLineSet
    /\ \A n \in ChunkLineSet : stats.minLines.v <= n
    /\ stats.maxLines \in ChunkLineSet
    /\ \A n \in ChunkLineSet : n <= stats.maxLines
    /\ stats.totalSections = SumSeq([c \in 1..Len(chunks) |-> Len(chunks[c].sections)])
    /\ stats.totalFields =
         Cardinality(EmittedFieldSlots)

(* C9 witness: statistics over at least two chunks of different spans      *)
(* whose average is rounded up.                                            *)
C9_Witness ==
  /\ pc = "done"
  /\ Len(chunks) >= 2
  /\ stats.minLines.v < stats.maxLines
  /\ stats.avgLinesPerChunk.v * Len(chunks) > TotalLines

(* C10 (as claimed): no caller invokes getStatistics on an empty chunk     *)
(* sequence, so no caller obtains avgLinesPerChunk = NaN or                *)
(* minLines = Infinity.                                                    *)
C10_CallersGuardEmpty ==
  /\ pc = "stats" => Len(chunks) > 0
  /\ pc = "done" => /\ stats.avgLinesPerChunk.kind # "NaN"
                    /\ stats.minLines.kind # "Infinity"

(* C11: Scenario D. For a document whose sections list is empty,           *)
(* chunkTemplate returns no chunks, an index whose three maps are empty    *)
(* and metadata.totalChunks = 0; it returns, it does not throw.            *)
C11_ScenarioD ==
  /\ (pc = "loop" /\ inputKind = "ok" /\ template = <<>>) => ENABLED chunkTemplateEnd
  /\ (Returned /\ template = <<>>) =>
       /\ chunks = <<>>
       /\ index = EmptyIndex
       /\ totalChunks = 0

(* C11 witness: chunkTemplate has returned for the empty document.         *)
C11_Witness == pc = "chunked" /\ template = <<>> /\ runs = 1

(* the chunks made from the section at position k of the document by       *)
(* splitLargeSection, in emission order                                    *)
SubChunksOf(k) ==
  SelectSeq(chunks, LAMBDA ch : IsSubChunk(ch) /\ ch.sections[1].id.base = k)

(* positions in chunks of the sub-chunks of section k *)
SubChunkPositions(k) ==
  { c \in 1..Len(chunks) : IsSubChunk(chunks[c]) /\ chunks[c].sections[1].id.base = k }

(* C12: a section of estimated size S > maxChunkSize with F >= 1 fields    *)
(* is emitted as ceil(F / fieldsPerChunk) adjacent sub-chunks, where       *)
(* fieldsPerChunk = ceil(F / ceil(S / maxChunkSize)); the n-th holds the   *)
(* n-th group of fieldsPerChunk consecutive fields (the last group may be  *)
(* smaller) under the section id suffixed -part-n. For S = 1200, F = 12    *)
(* and maxChunkSize = 500 these are 3 sub-chunks of 4 fields.              *)
C12_SplitRule ==
  Returned =>
    /\ \A k \in 1..Len(template) :
         LET S == estimateLines(template[k])
             F == Len(template[k].fields)
             partsNeeded == CeilDiv(S, engine.maxChunkSize)
             fieldsPerChunk == CeilDiv(F, partsNeeded)
             subs == SubChunksOf(k)
         IN (S > engine.maxChunkSize /\ F >= 1) =>
              /\ Len(subs) = CeilDiv(F, fieldsPerChunk)
              /\ \E first \in 1..Len(chunks) :
                   SubChunkPositions(k) = first..(first + Len(subs) - 1)
              /\ \A n \in 1..Len(subs) :
                   /\ subs[n].sections[1].id = [base |-> k, part |-> n]
                   /\ subs[n].sections[1].fields =
                        SubSeq(template[k].fields, (n - 1) * fieldsPerChunk + 1,
                               Min(n * fieldsPerChunk, F))
                   /\ n < Len(subs) => Len(subs[n].sections[1].fields) = fieldsPerChunk
    /\ (template = ScenarioC /\ engine.maxChunkSize = 500) =>
         /\ Len(chunks) = 3
         /\ \A c \in 1..3 : /\ Len(chunks[c].sections[1].fields) = 4
                            /\ chunks[c].sections[1].id = [base |-> 1, part |-> c]

(* C12 witness: Scenario C has been packed by the route's engine.          *)
C12_Witness ==
  /\ pc = "done"
  /\ template = ScenarioC
  /\ engine.maxChunkSize = 500
  /\ Len(chunks) = 3

(* the CLI process has ended *)
Exited == caller = "cli" /\ pc \in {"done", "exited"}

(* the run succeeded: the chunked document was written to the output file *)
Succeeded == written

(* C13: the CLI ends with code 0 exactly when the run succeeded or --help  *)
(* was reached by parseArgs, and with code 1 otherwise; in particular on   *)
(* an unknown option, a missing --input or --output, an input file that    *)
(* does not exist, a chunk size below 50, unparsable JSON, and an          *)
(* exception thrown while packing or while writing the output.             *)
C13_ExitCodes ==
  caller = "cli" =>
    /\ exitCode # <<>> <=> Exited
    /\ Exited =>
         /\ exitCode \in {<<0>>, <<1>>}
         /\ exitCode = <<0>> <=> (Succeeded \/ argv \in HelpArgvs)
         /\ argv \in FailingArgvs => exitCode = <<1>>
         /\ (argv \notin HelpArgvs /\ inputKind # "ok") => exitCode = <<1>>
         /\ (pc = "exited" /\ stats # <<>>) => exitCode = <<1>>
    /\ Succeeded =>
         /\ argv \in GoodArgvs \cup DefaultArgvs \cup MinSizeArgvs
                    \cup NonNumericChunkArgvs \cup ZeroOverlapArgvs
         /\ inputKind = "ok"
         /\ pc = "done"

(* C13 witness: the process has ended with code 1 because the chunk size   *)
(* given is below 50, although both files were given and the input exists. *)
C13_Witness ==
  /\ Exited
  /\ argv \in SmallChunkArgvs
  /\ inputKind = "ok"
  /\ exitCode = <<1>>

(* C14: chunkTemplate does not modify its input. No step of a              *)
(* chunkTemplate call changes the document: its sections, their tags       *)
(* lists and their field lists stay as they were, also while a chunk's     *)
(* tags list is the tags array of the section that seeded it and while a   *)
(* section is split into parts.                                            *)
C14_InputUnchanged == [][(pc \in {"call", "loop"}) => (template' = template)]_vars

(* C14 witness: a chunk seeded by the new-chunk branch (its tags array was *)
(* the seeding section's) has taken a further section with another tag.    *)
C14_Witness ==
  /\ Returned
  /\ \E c \in 2..Len(chunks) :
       /\ ~IsSubChunk(chunks[c])
       /\ ~IsSubChunk(chunks[c - 1])
       /\ Len(chunks[c].sections) >= 2
       /\ chunks[c].tagsRef = 0
       /\ chunks[c].tags # chunks[c].sections[1].tags

(* the sections of a chunk sequence, in order *)
RECURSIVE ConcatSections(_)
ConcatSections(cs) ==
  IF cs = <<>> THEN <<>> ELSE Head(cs).sections \o ConcatSections(Tail(cs))

(* sum of the estimated sizes of the sections of a chunk *)
SectionLinesOf(chunk) ==
  SumSeq([j \in 1..Len(chunk.sections) |-> estimateLines(chunk.sections[j])])

NoSectionOversized ==
  \A k \in 1..Len(template) : estimateLines(template[k]) <= engine.maxChunkSize

(* C15: greedy packing. When no section is larger than maxChunkSize, the   *)
(* chunks hold consecutive runs of the input sections, in order and        *)
(* without gaps; the sections of a chunk total at most maxChunkSize; and a *)
(* chunk ends before a section exactly when that section would have taken  *)
(* the chunk's total above maxChunkSize. Sizes [300, 300] at maxChunkSize  *)
(* 500 give two chunks of one section.                                     *)
C15_GreedyPacking ==
  (Returned /\ NoSectionOversized) =>
    /\ ConcatSections(chunks) = template
    /\ \A c \in 1..Len(chunks) :
         /\ Len(chunks[c].sections) >= 1
         /\ SectionLinesOf(chunks[c]) <= engine.maxChunkSize
         /\ c < Len(chunks) =>
              SectionLinesOf(chunks[c]) + estimateLines(chunks[c + 1].sections[1])
                > engine.maxChunkSize
    /\ (template = ScenarioB /\ engine.maxChunkSize = 500) =>
         /\ Len(chunks) = 2
         /\ Len(chunks[1].sections) = 1
         /\ Len(chunks[2].sections) = 1

(* C15 witness: Scenario B has been packed by the route's engine.          *)
C15_Witness ==
  /\ pc = "done"
  /\ caller = "route"
  /\ template = ScenarioB
  /\ Len(chunks) = 2

NoDuplicates(seq) == \A a, b \in 1..Len(seq) : seq[a] = seq[b] => a = b

(* C17 (as claimed): the tags of every emitted chunk form a set, whichever *)
(* branch made the chunk and even when a section's own tags list repeats a *)
(* tag; hence no index.byTag list names a chunk twice.                     *)
C17_TagsAreSets ==
  Returned =>
    /\ \A c \in 1..Len(chunks) : NoDuplicates(chunks[c].tags)
    /\ \A tag \in DOMAIN index.byTag : NoDuplicates(index.byTag[tag])

(* C18 (as claimed): the title of every emitted chunk is the name of the   *)
(* first section it contains (with the part marker for a sub-chunk), also  *)
(* when that name is empty and a later section of the chunk has a name.    *)
C18_TitleIsFirstName ==
  Returned =>
    \A c \in 1..Len(chunks) : chunks[c].title = chunks[c].sections[1].name

(* the section at position k is larger than maxChunkSize and has no fields *)
OversizedEmpty(k) ==
  /\ estimateLines(template[k]) > engine.maxChunkSize
  /\ template[k].fields = <<>>

(* positions of the input sections that a chunk holds (whole or in part) *)
PositionsIn(chunk) == { chunk.sections[j].id.base : j \in 1..Len(chunk.sections) }

(* C19: an oversized section without fields yields no sub-chunk. It is in  *)
(* no emitted chunk, and its name is no index.bySection key unless another *)
(* section bears that name; the sections before it are emitted in chunks   *)
(* that end before it, and the section after it, when it fits alone,       *)
(* opens a chunk of its own accumulator.                                   *)
C19_OversizedEmptyDropped ==
  Returned =>
    \A k \in 1..Len(template) :
      OversizedEmpty(k) =>
        /\ \A c \in 1..Len(chunks) : k \notin PositionsIn(chunks[c])
        /\ (\A j \in 1..Len(template) :
              template[j].name = template[k].name => OversizedEmpty(j))
             => \A key \in DOMAIN index.bySection : key.base # template[k].name.base
        /\ \A c \in 1..Len(chunks) :
             ~(\E a, b \in PositionsIn(chunks[c]) : a < k /\ k < b)
        /\ \A j \in 1..(k - 1) :
             ~OversizedEmpty(j) => \E c \in 1..Len(chunks) : j \in PositionsIn(chunks[c])
        /\ (k < Len(template) /\ estimateLines(template[k + 1]) <= engine.maxChunkSize) =>
             \E c \in 1..Len(chunks) : chunks[c].sections[1].id.base = k + 1

(* C19 witness: a document of three sections whose second is oversized     *)
(* and has no fields was packed into two chunks, one before and one after. *)
C19_Witness ==
  /\ Returned
  /\ Len(template) = 3
  /\ OversizedEmpty(2)
  /\ Len(chunks) = 2
  /\ PositionsIn(chunks[1]) = {1}
  /\ PositionsIn(chunks[2]) = {3}

(* the engine of the earlier run differs from this one in minChunkSize only *)
DiffersInMinChunkSizeOnly(e1, e2) ==
  /\ e1.maxChunkSize = e2.maxChunkSize
  /\ e1.overlapSize = e2.overlapSize
  /\ e1.minChunkSize # e2.minChunkSize

UndersizedChunks(cs, min) == { c \in 1..Len(cs) : ChunkLines(cs[c]) < min }

LastSection(chunk) == chunk.sections[Len(chunk.sections)]

C22_OverlapIdempotent == Overlapped => addOverlap(chunks) = chunks

(* C22 witness: the first pass has attached a context to two chunks.       *)
C22_Witness ==
  /\ Overlapped
  /\ Len(chunks) >= 3
  /\ chunks[2].context # <<>>
  /\ chunks[3].context # <<>>

(* a chunk without its content.context *)
WithoutContext(chunk) == [chunk EXCEPT !.context = <<>>]

(* C23: the addOverlap step changes nothing but content.context of the     *)
(* chunks after the first: the sequence keeps its length and order, every  *)
(* chunk keeps its id, title, tags, startLine, endLine and sections, and   *)
(* the first chunk is unchanged as a whole.                                *)
C23_OverlapFrame ==
  [][(pc = "chunked") =>
       (/\ Len(chunks') = Len(chunks)
        /\ \A c \in 1..Len(chunks) : WithoutContext(chunks'[c]) = WithoutContext(chunks[c])
        /\ Len(chunks) > 0 => chunks'[1] = chunks[1]
        /\ template' = template /\ index' = index)]_vars

(* C23 witness: addOverlap has attached a context to a chunk that holds    *)
(* fields of its own.                                                      *)
C23_Witness ==
  /\ Overlapped
  /\ \E c \in 2..Len(chunks) :
       /\ chunks[c].context # <<>>
       /\ Len(chunks[c].sections[1].fields) > 0

(* the handler of the current request has finished *)
Responded == caller = "route" /\ pc \in {"done", "responded"}

(* chunkTemplate calls made for the current request *)
PackerCalls == runs - res.runsAtStart

(* C25: POST /api/chunk sends exactly one response per request: 400,       *)
(* without calling the packer, when the body has no template or the        *)
(* template has no sections; 500 with the error message when packing       *)
(* throws; otherwise the chunked template with its statistics. The packer  *)
(* is called at most once per request: a failed request is not retried.    *)
C25_OneResponse ==
  caller = "route" =>
    /\ Len(res.sent) <= 1
    /\ PackerCalls <= 1
    /\ Len(res.sent) = 1 <=> Responded
    /\ Responded =>
         /\ inputKind \in {"notemplate", "nosections"} =>
              res.sent = <<BadRequestResponse>> /\ PackerCalls = 0
         /\ inputKind = "badsection" =>
              res.sent = <<ErrorResponse>> /\ PackerCalls = 1
         /\ inputKind = "ok" =>
              /\ res.sent = <<SuccessResponse(chunks, index, totalChunks, stats)>>
              /\ stats = getStatistics(chunks)
              /\ PackerCalls = 1

(* C25 witness: a request with a template without sections was answered   *)
(* 400 on a server whose packer had served two requests before.            *)
C25_Witness ==
  /\ Responded
  /\ inputKind = "nosections"
  /\ res.sent = <<BadRequestResponse>>
  /\ runs = 2

(* a ChunkingEngine has been constructed by main *)
EngineBuilt ==
  /\ caller = "cli"
  /\ \/ pc \in {"call", "loop", "chunked", "stats", "write", "done"}
     \/ pc = "exited" /\ runs > 0

(* C26: in every CLI run that reaches packing the engine's maxChunkSize is *)
(* at least 50. A --chunk-size below 50 ends the run with exit code 1      *)
(* before main reads the input file; a missing or non-numeric --chunk-size *)
(* gives the engine the default 500.                                       *)
C26_ChunkSizeFloor ==
  caller = "cli" =>
    /\ EngineBuilt => engine.maxChunkSize >= CliMinChunkSize
    /\ argv \in SmallChunkArgvs =>
         /\ pc \in {"parseArgs", "validate", "exited"}
         /\ runs = 0
         /\ pc = "exited" => exitCode = <<1>>
    /\ (argv \in NonNumericChunkArgvs \cup DefaultArgvs /\ EngineBuilt) =>
         engine.maxChunkSize = DefaultMaxChunkSize

(* C26 witness: packing was reached with a --chunk-size that parseInt      *)
(* turned into NaN.                                                        *)
C26_Witness ==
  /\ argv \in NonNumericChunkArgvs
  /\ options.chunkSize = NaN
  /\ pc = "done"
  /\ Len(chunks) > 0

(* C27 (as claimed): an engine constructed with overlapSize: 0 injects no  *)
(* overlap: addOverlap returns the chunks with no context added.           *)
C27_ZeroOverlapInjectsNothing ==
  (caller = "cli" /\ Returned /\ options.overlapSize = Num(0)) =>
    addOverlap(chunks) = chunks

(* the fields of a list of sections, in order *)
RECURSIVE ConcatFields(_)
ConcatFields(secs) ==
  IF secs = <<>> THEN <<>> ELSE Head(secs).fields \o ConcatFields(Tail(secs))

(* the emitted sections that are the section at position k or a part of it *)
EmittedOf(k) == SelectSeq(ConcatSections(chunks), LAMBDA sec : sec.id.base = k)

(* C28: packing preserves order. Reading the sections of the chunks in     *)
(* chunk order gives the input sections in their order, each unsplit       *)
(* section once and as it was, each split section as its parts 1, 2, ...   *)
(* next to each other, and nothing for an oversized section without        *)
(* fields; the field groups of the parts of a split section, in part       *)
(* order, make up the parent's field list.                                 *)
C28_OrderPreserved ==
  Returned =>
    LET flat == ConcatSections(chunks)
    IN /\ \A j \in 1..(Len(flat) - 1) :
            \/ flat[j].id.base < flat[j + 1].id.base
            \/ /\ flat[j].id.base = flat[j + 1].id.base
               /\ flat[j].id.part >= 1
               /\ flat[j + 1].id.part = flat[j].id.part + 1
       /\ { flat[j].id.base : j \in 1..Len(flat) } =
            { k \in 1..Len(template) : ~OversizedEmpty(k) }
       /\ \A j \in 1..Len(flat) :
            /\ flat[j].id.part = 0 => flat[j] = template[flat[j].id.base]
            /\ (flat[j].id.part >= 1 /\ (j = 1 \/ flat[j - 1].id.base # flat[j].id.base))
                 => flat[j].id.part = 1
       /\ \A k \in 1..Len(template) :
            ~OversizedEmpty(k) => ConcatFields(EmittedOf(k)) = template[k].fields

(* C28 witness: a document whose second section was split into parts with *)
(* different fields, between two sections that were not split.             *)
C28_Witness ==
  /\ Returned
  /\ Len(template) = 3
  /\ Len(EmittedOf(1)) = 1
  /\ Len(EmittedOf(2)) >= 2
  /\ EmittedOf(2)[1].fields # EmittedOf(2)[2].fields
  /\ Len(EmittedOf(3)) = 1

(***************************************************************************)
(* RAGEngine (the `rag` instance of routes/api.js): the collection, the    *)
(* startup initialize() and the requests that use the engine. Every step   *)
(* is one run of the event loop from one await to the next.                *)
(***************************************************************************)
(* requests that arrive while the server runs *)
MaxRequests == 2

(* the numbers of chunks in the body of a POST /index *)
BatchSizes == {0, 1, 2}

(* a chunk as POST /index receives it: the k-th chunk of a chunked document *)
BatchChunk(k) ==
  [id |-> "chunk-" \o ToString(k),
   title |-> IF k % 2 = 1 THEN "A" ELSE "",
   tags |-> IF k % 2 = 1 THEN <<"x">> ELSE <<>>,
   startLine |-> 1,
   endLine |-> 10 * k,
   sections |-> [j \in 1..k |-> [name |-> "S" \o ToString(j)]]]

Batches == { [k \in 1..n |-> BatchChunk(k)] : n \in BatchSizes }

(* req.body.templateId || 'default' *)
TemplateIds == {"default", "t1"}

(* a.join(sep) *)
RECURSIVE Join(_, _)
Join(a, sep) ==
  IF a = <<>> THEN ""
  ELSE IF Len(a) = 1 THEN a[1]
  ELSE a[1] \o sep \o Join(Tail(a), sep)

(* chunkToText(chunk): the title line, the tags line when there are tags   *)
(* and one line per section, with blank lines between the blocks; the      *)
(* final trim() removes the line ends after the last block, and the blank  *)
(* after '#' when nothing follows an empty title. The label of the tags    *)
(* line is written in Latin letters; the sections of a batch chunk have a  *)
(* name, no description and no fields.                                     *)
chunkToText(chunk) ==
  LET tagsBlock == IF Len(chunk.tags) > 0
                   THEN <<"Tags: " \o Join(chunk.tags, ", ")>> ELSE <<>>
      sectionsBlock ==
        IF Len(chunk.sections) > 0
        THEN <<Join([j \in 1..Len(chunk.sections) |-> "## " \o chunk.sections[j].name], "\n")>>
        ELSE <<>>
      rest == tagsBlock \o sectionsBlock
  IN IF rest = <<>> /\ chunk.title = "" THEN "#"
     ELSE Join(<<"# " \o chunk.title>> \o rest, "\n\n")

(* the vector the embedding provider returns for a text *)
EmbeddingOf(text) == [input |-> text]

(* the metadata record indexChunks builds for a chunk *)
MetadataOf(templateId, chunk) ==
  [templateId |-> templateId,
   chunkId |-> chunk.id,
   title |-> chunk.title,
   tags |-> Join(chunk.tags, ","),
   startLine |-> chunk.startLine,
   endLine |-> chunk.endLine,
   sectionCount |-> Len(chunk.sections)]

(* a call of a RAGEngine method: the startup initialize() is call 0, the   *)
(* requests are calls 1..MaxRequests                                       *)
RagCalls == 0..MaxRequests

(* a call that has not been made yet *)
NoCall ==
  [kind |-> "none", pc |-> "absent", chunks |-> <<>>, templateId |-> "", i |-> 0,
   ids |-> <<>>, embeddings |-> <<>>, metadatas |-> <<>>, documents |-> <<>>,
   requested |-> <<>>, adds |-> <<>>, error |-> ""]

(* new RAGEngine(config): this.collection is not set *)
NewRag ==
  [collection |-> FALSE, gocCalls |-> 0, gocFailed |-> FALSE,
   calls |-> [p \in RagCalls |-> NoCall]]

(* initialize() up to its await: getOrCreateCollection is called *)
CallInitialize(c) == [c EXCEPT !.pc = "awaitInit"]

(* getEmbedding(text) up to its await: the request goes to the provider *)
RequestEmbedding(c, text) ==
  [c EXCEPT !.pc = "awaitEmbedding", !.requested = Append(@, text)]

(* indexChunks: await this.collection.add({ids, embeddings, metadatas, documents}) *)
CallAdd(c) ==
  [c EXCEPT !.pc = "awaitAdd",
            !.adds = Append(@, [ids |-> c.ids, embeddings |-> c.embeddings,
                                metadatas |-> c.metadatas, documents |-> c.documents])]

(* indexChunks at the loop test with loop variable c.i *)
indexChunksLoop(c) ==
  IF c.i < Len(c.chunks)
  THEN RequestEmbedding(c, chunkToText(c.chunks[c.i + 1]))
  ELSE CallAdd(c)

(* a method after its `if (!this.collection) await this.initialize()` *)
AfterCollection(c) ==
  CASE c.kind = "index" -> indexChunksLoop(c)
    [] c.kind = "search" -> RequestEmbedding(c, "query")
    [] c.kind = "delete" -> [c EXCEPT !.pc = "awaitGet"]
    [] OTHER -> [c EXCEPT !.pc = "done"]

(* faulty variant of EmbeddingFailed: the chunk is skipped and the loop    *)
(* goes on                                                                 *)
EmbeddingFailedSkipsChunk(c) ==
  IF c.kind = "index"
  THEN indexChunksLoop([c EXCEPT !.error = "embedding", !.i = @ + 1])
  ELSE [c EXCEPT !.pc = "failed", !.error = "embedding"]

(* getEmbedding throws (the fetch rejects or the response is not ok); the  *)
(* calling method has no catch, so its promise rejects                     *)
EmbeddingFailed(c) == [c EXCEPT !.pc = "failed", !.error = "embedding"]

(* indexChunks after `const embedding = await this.getEmbedding(chunkText)` *)
EmbeddingPushed(c, embedding) ==
  LET chunk == c.chunks[c.i + 1]
      d == [c EXCEPT !.ids = Append(@, c.templateId \o ":" \o chunk.id),
                     !.embeddings = Append(@, embedding),
                     !.metadatas = Append(@, MetadataOf(c.templateId, chunk)),
                     !.documents = Append(@, chunkToText(chunk))]
  IN IF c.i < Len(c.chunks) - 1
     THEN [d EXCEPT !.pc = "sleeping"]
     ELSE indexChunksLoop([d EXCEPT !.i = @ + 1])

(* what the RAG steps leave alone *)
chunkerVars ==
  <<caller, options, engine, template, pc, i, chunks, currentChunk,
    currentLineCount, index, totalChunks, stats, runs, seen, env, res, ui>>

(* routes/api.js is loaded: the engine is constructed *)
RagInit ==
  /\ rag = NewRag
  /\ caller = "rag"
  /\ options = DefaultOptions
  /\ engine = NoEngine
  /\ template = <<>>
  /\ pc = "idle"
  /\ argv = <<>>
  /\ inputKind = "ok"
  /\ exitCode = <<>>
  /\ written = FALSE
  /\ res = NoResponse(0)
  /\ ui = UiIdle
  /\ i = 0
  /\ chunks = <<>>
  /\ currentChunk = createNewChunk(0)
  /\ currentLineCount = 0
  /\ index = EmptyIndex
  /\ totalChunks = 0
  /\ stats = <<>>
  /\ runs = 0
  /\ seen = <<>>

(* module load: rag.initialize().catch(...) *)
RagStartup ==
  /\ rag.calls[0].pc = "absent"
  /\ rag' = [rag EXCEPT !.gocCalls = @ + 1,
                        !.calls[0] = CallInitialize([NoCall EXCEPT !.kind = "init"])]
  /\ UNCHANGED chunkerVars

(* a request arrives and its method runs up to its first await *)
RagRequest ==
  /\ rag.calls[0].pc # "absent"
  /\ \E p \in 1..MaxRequests :
       /\ rag.calls[p].pc = "absent"
       /\ \A q \in 1..(p - 1) : rag.calls[q].pc # "absent"
       /\ \E c \in { [NoCall EXCEPT !.kind = "index", !.chunks = b, !.templateId = t] :
                       b \in Batches, t \in TemplateIds }
                     \cup { [NoCall EXCEPT !.kind = k] : k \in {"search", "delete"} } :
            rag' = IF rag.collection
                   THEN [rag EXCEPT !.calls[p] = AfterCollection(c)]
                   ELSE [rag EXCEPT !.gocCalls = @ + 1, !.calls[p] = CallInitialize(c)]
  /\ UNCHANGED chunkerVars

(* getOrCreateCollection resolves: this.collection is assigned and the     *)
(* method that awaited initialize() goes on                                *)
RagCollectionObtained ==
  /\ \E p \in RagCalls :
       /\ rag.calls[p].pc = "awaitInit"
       /\ rag' = [rag EXCEPT !.collection = TRUE,
                             !.calls[p] = AfterCollection(rag.calls[p])]
  /\ UNCHANGED chunkerVars

(* getOrCreateCollection rejects: initialize() rethrows *)
RagCollectionFails ==
  /\ \E p \in RagCalls :
       /\ rag.calls[p].pc = "awaitInit"
       /\ rag' = [rag EXCEPT !.gocFailed = TRUE,
                             !.calls[p].pc = "failed",
                             !.calls[p].error = "initialize"]
  /\ UNCHANGED chunkerVars

(* the embedding provider answers the pending request *)
RagEmbeddingObtained ==
  /\ \E p \in RagCalls :
       LET c == rag.calls[p]
       IN /\ c.pc = "awaitEmbedding"
          /\ rag' = [rag EXCEPT !.calls[p] =
                       IF c.kind = "index"
                       THEN EmbeddingPushed(c, EmbeddingOf(c.requested[Len(c.requested)]))
                       ELSE [c EXCEPT !.pc = "awaitQuery"]]
  /\ UNCHANGED chunkerVars

(* the pending embedding request fails *)
RagEmbeddingFails ==
  /\ \E p \in RagCalls :
       /\ rag.calls[p].pc = "awaitEmbedding"
       /\ rag' = [rag EXCEPT !.calls[p] = EmbeddingFailed(rag.calls[p])]
  /\ UNCHANGED chunkerVars

(* indexChunks: await this.sleep(100) is over, i++ and the next pass *)
RagSleepEnds ==
  /\ \E p \in RagCalls :
       /\ rag.calls[p].pc = "sleeping"
       /\ rag' = [rag EXCEPT !.calls[p] = indexChunksLoop([rag.calls[p] EXCEPT !.i = @ + 1])]
  /\ UNCHANGED chunkerVars

(* the vector store answers collection.add, query, get or delete;          *)
(* deleteTemplateIndex calls delete when get found ids                     *)
RagStoreResponds ==
  /\ \E p \in RagCalls :
       LET c == rag.calls[p]
       IN /\ c.pc \in {"awaitAdd", "awaitQuery", "awaitGet", "awaitDelete"}
          /\ \E found \in BOOLEAN :
               /\ c.pc # "awaitGet" => found = FALSE
               /\ rag' = [rag EXCEPT !.calls[p].pc =
                            IF found THEN "awaitDelete" ELSE "done"]
  /\ UNCHANGED chunkerVars

(* the vector store rejects the call *)
RagStoreFails ==
  /\ \E p \in RagCalls :
       /\ rag.calls[p].pc \in {"awaitAdd", "awaitQuery", "awaitGet", "awaitDelete"}
       /\ rag' = [rag EXCEPT !.calls[p].pc = "failed", !.calls[p].error = "store"]
  /\ UNCHANGED chunkerVars

RagNext ==
  \/ RagStartup
  \/ RagRequest
  \/ RagCollectionObtained
  \/ RagCollectionFails
  \/ RagEmbeddingObtained
  \/ RagEmbeddingFails
  \/ RagSleepEnds
  \/ RagStoreResponds
  \/ RagStoreFails

RagSpec == RagInit /\ [][RagNext]_vars

(* the indexChunks calls made so far *)
IndexCalls == { p \in RagCalls : rag.calls[p].kind = "index" }

(* the four arrays hold one entry per chunk 1..k, each built from the      *)
(* chunk at its position                                                   *)
Aligned(c, a, k) ==
  /\ Len(a.ids) = k /\ Len(a.embeddings) = k
  /\ Len(a.metadatas) = k /\ Len(a.documents) = k
  /\ \A j \in 1..k :
       /\ a.ids[j] = c.templateId \o ":" \o c.chunks[j].id
       /\ a.embeddings[j] = EmbeddingOf(chunkToText(c.chunks[j]))
       /\ a.metadatas[j].chunkId = c.chunks[j].id
       /\ a.documents[j] = chunkToText(c.chunks[j])

(* C24: indexChunks is an all-or-nothing batch. The embedding requests of  *)
(* a call are those of its chunks 1..k in chunk order, one per chunk, and  *)
(* a request is made only when every earlier one was answered; add is      *)
(* called at most once, only when every chunk has its embedding, with four *)
(* arrays of one entry per chunk aligned by position; a call that          *)
(* completed called add exactly once; a call whose embedding request       *)
(* failed is rejected and never called add.                                *)
C24_AllOrNothing ==
  \A p \in IndexCalls :
    LET c == rag.calls[p]
        n == Len(c.chunks)
        k == Len(c.requested)
    IN /\ k <= n
       /\ \A j \in 1..k : c.requested[j] = chunkToText(c.chunks[j])
       /\ Len(c.ids) = IF c.pc = "awaitEmbedding" \/ c.error = "embedding"
                       THEN k - 1 ELSE k
       /\ Len(c.adds) <= 1
       /\ Len(c.adds) = 1 => k = n /\ Aligned(c, c.adds[1], n)
       /\ c.pc = "done" => Len(c.adds) = 1
       /\ c.error = "embedding" => c.pc = "failed" /\ c.adds = <<>>

(* C24 witness: one call indexed a batch of more than one chunk and        *)
(* another call was rejected after its first embedding had been obtained.  *)
C24_Witness ==
  /\ \E p \in IndexCalls :
       /\ rag.calls[p].pc = "done"
       /\ Len(rag.calls[p].chunks) >= 2
       /\ Len(rag.calls[p].adds) = 1
  /\ \E q \in IndexCalls :
       /\ rag.calls[q].error = "embedding"
       /\ Len(rag.calls[q].ids) = 1

(* C29: getOrCreateCollection is called at most once as long as no call of *)
(* it fails.                                                               *)
C29_CollectionObtainedOnce ==
  ~rag.gocFailed => rag.gocCalls <= 1

(***************************************************************************)
(* The AIAssistant widget (AIAssistant.jsx): its state hooks, the timers   *)
(* it started and its requests to the backend. A handler reads the state   *)
(* of the render it was created in; the user acts on the latest render.    *)
(***************************************************************************)
(* clicks on a quick question *)
MaxClicks == 1

(* requests the widget sends to the backend *)
MaxAsks == 2

(* texts are sequences of characters *)
Blank == " "

(* s.trim() *)
RECURSIVE Trim(_)
Trim(s) ==
  IF s = <<>> THEN s
  ELSE IF Head(s) = Blank THEN Trim(Tail(s))
  ELSE IF s[Len(s)] = Blank THEN Trim(SubSeq(s, 1, Len(s) - 1))
  ELSE s

(* what the user types into the input box *)
TypedTexts == { <<>>, <<Blank>>, <<"q">> }

(* quickQuestions: the icon and the query of each button *)
QuickQuestions ==
  { [icon |-> "bulb", query |-> <<"Q", "1">>],
    [icon |-> "sparkles", query |-> <<"Q", "2">>],
    [icon |-> "search", query |-> <<>>],
    [icon |-> "books", query |-> <<"Q", "3">>] }

(* the useState initial values; nothing is scheduled or in flight *)
Mounted ==
  [isOpen |-> FALSE, question |-> <<>>, messages |-> <<>>, loading |-> FALSE,
   searchResults |-> "null", timers |-> <<>>, inFlight |-> <<>>, sent |-> <<>>,
   ran |-> <<>>]

(* handleAskQuestion of a render whose question is `question`, up to       *)
(* `await askQuestion(question, context)`                                  *)
handleAskQuestion(w, question) ==
  IF Trim(question) = <<>> THEN w
  ELSE [w EXCEPT !.loading = TRUE,
                 !.messages = Append(@, [role |-> "user", content |-> question]),
                 !.inFlight = Append(@, [kind |-> "ask", query |-> question]),
                 !.sent = Append(@, [kind |-> "ask", query |-> question])]

(* handleSearch(query) up to `await searchChunks(...)` *)
handleSearch(w, query) ==
  IF Trim(query) = <<>> THEN w
  ELSE [w EXCEPT !.loading = TRUE,
                 !.inFlight = Append(@, [kind |-> "search", query |-> query]),
                 !.sent = Append(@, [kind |-> "search", query |-> query])]

(* a handler call that may send a request stays within the explored number *)
(* of requests                                                             *)
CanSend(w, text) == Trim(text) = <<>> \/ Len(w.sent) < MaxAsks

(* a sequence without its k-th element *)
RemoveAt(s, k) == SubSeq(s, 1, k - 1) \o SubSeq(s, k + 1, Len(s))

(* what the widget steps leave alone *)
serverVars ==
  <<caller, options, engine, template, pc, i, chunks, currentChunk,
    currentLineCount, index, totalChunks, stats, runs, seen, env, res, rag>>

(* the component is mounted *)
WidgetInit ==
  /\ ui = Mounted
  /\ rag = RagIdle
  /\ caller = "widget"
  /\ options = DefaultOptions
  /\ engine = NoEngine
  /\ template = <<>>
  /\ pc = "idle"
  /\ argv = <<>>
  /\ inputKind = "ok"
  /\ exitCode = <<>>
  /\ written = FALSE
  /\ res = NoResponse(0)
  /\ i = 0
  /\ chunks = <<>>
  /\ currentChunk = createNewChunk(0)
  /\ currentLineCount = 0
  /\ index = EmptyIndex
  /\ totalChunks = 0
  /\ stats = <<>>
  /\ runs = 0
  /\ seen = <<>>

(* the round button: setIsOpen(!isOpen) *)
WidgetToggle ==
  /\ ui' = [ui EXCEPT !.isOpen = ~@]
  /\ UNCHANGED serverVars

(* the input box: onChange={(e) => setQuestion(e.target.value)} *)
WidgetType ==
  /\ ui.isOpen /\ ~ui.loading
  /\ \E t \in TypedTexts : ui' = [ui EXCEPT !.question = t]
  /\ UNCHANGED serverVars

(* Enter in the input box, or the send button when it is enabled *)
WidgetSubmit ==
  /\ ui.isOpen /\ ~ui.loading
  /\ CanSend(ui, ui.question)
  /\ ui' = IF ui.searchResults # "null"
           THEN handleSearch(ui, ui.question)
           ELSE handleAskQuestion(ui, ui.question)
  /\ UNCHANGED serverVars

(* a quick question button: handleQuickQuestion(quickQ). The timer keeps   *)
(* the handleAskQuestion of this render, whose question is ui.question.    *)
WidgetQuickQuestion ==
  /\ ui.isOpen /\ ui.messages = <<>> /\ ui.searchResults = "null"
  /\ Len(ui.timers) + Len(ui.ran) < MaxClicks
  /\ \E quickQ \in QuickQuestions :
       ui' = IF quickQ.icon = "search"
             THEN [ui EXCEPT !.searchResults = "empty"]
             ELSE [ui EXCEPT !.question = quickQ.query,
                             !.timers = Append(@, [query |-> quickQ.query,
                                                   box |-> ui.question])]
  /\ UNCHANGED serverVars

(* the timer of a quick question fires: () => handleAskQuestion() *)
WidgetTimerFires ==
  /\ ui.timers # <<>>
  /\ LET t == Head(ui.timers)
         w == handleAskQuestion(ui, t.box)
     IN /\ CanSend(ui, t.box)
        /\ ui' = [w EXCEPT !.timers = Tail(ui.timers),
                           !.ran = Append(@, [query |-> t.query, box |-> t.box,
                                              seen |-> t.box,
                                              asked |-> w.sent # ui.sent])]
  /\ UNCHANGED serverVars

(* the backend answers a request: the answer is appended and the box is    *)
(* cleared, or the search results are shown                                *)
WidgetResponse ==
  /\ \E k \in 1..Len(ui.inFlight) :
       LET r == ui.inFlight[k]
           w == [ui EXCEPT !.inFlight = RemoveAt(@, k), !.loading = FALSE]
       IN ui' = IF r.kind = "ask"
                THEN [w EXCEPT !.messages = Append(@, [role |-> "assistant",
                                                       content |-> r.query]),
                               !.question = <<>>]
                ELSE [w EXCEPT !.searchResults = "results"]
  /\ UNCHANGED serverVars

(* a request fails: the error message is appended (ask) or logged (search) *)
WidgetRequestFails ==
  /\ \E k \in 1..Len(ui.inFlight) :
       LET r == ui.inFlight[k]
           w == [ui EXCEPT !.inFlight = RemoveAt(@, k), !.loading = FALSE]
       IN ui' = IF r.kind = "ask"
                THEN [w EXCEPT !.messages = Append(@, [role |-> "assistant",
                                                       content |-> <<"error">>])]
                ELSE w
  /\ UNCHANGED serverVars

(* the link under the search results: setSearchResults(null) *)
WidgetBackToChat ==
  /\ ui.isOpen /\ ui.searchResults # "null"
  /\ ui' = [ui EXCEPT !.searchResults = "null"]
  /\ UNCHANGED serverVars

WidgetNext ==
  \/ WidgetToggle
  \/ WidgetType
  \/ WidgetSubmit
  \/ WidgetQuickQuestion
  \/ WidgetTimerFires
  \/ WidgetResponse
  \/ WidgetRequestFails
  \/ WidgetBackToChat

WidgetSpec == WidgetInit /\ [][WidgetNext]_vars

(* the query was sent to the backend and is a user message *)
Asked(query) ==
  /\ \E k \in 1..Len(ui.sent) : ui.sent[k] = [kind |-> "ask", query |-> query]
  /\ \E k \in 1..Len(ui.messages) :
       ui.messages[k] = [role |-> "user", content |-> query]

(* C30: once the deferred handleAskQuestion call of a quick question that  *)
(* was clicked with an empty input box has run, it has seen the query of   *)
(* the click, and that query was sent to the backend and appended to the   *)
(* messages as a user message.                                             *)
C30_QuickQuestionAsked ==
  \A k \in 1..Len(ui.ran) :
    ui.ran[k].box = <<>> =>
      /\ ui.ran[k].seen = ui.ran[k].query
      /\ Asked(ui.ran[k].query)

====
